---------------------------- MODULE Spec2Model ----------------------------
(***************************************************************************)
(* CodeRefine AI Engine (Project/Backend/main.py): a FastAPI application   *)
(* with two routes, POST /review and POST /translate, that relay source    *)
(* code to a chat-completion service and hand back its JSON reply.         *)
(*                                                                         *)
(* Python values are tagged records [t |-> <type name>, ...]:               *)
(* NoneType, bool, int, float (the number mant / 10^scale), str, list (a    *)
(* sequence of values), dict (a function from key strings to values); the  *)
(* payload is held in a field named after the type.                        *)
(* The result of an operation that may raise is [ok |-> TRUE, v |-> value] *)
(* or [ok |-> FALSE, exc |-> <exception type>, msg |-> str(exception)].    *)
(***************************************************************************)
EXTENDS Integers, Sequences, FiniteSets, TLC

(***************************************************************************)
(* Python values and exceptions                                            *)
(***************************************************************************)
PyNone == [t |-> "NoneType", none |-> 0]
PyBool(b) == [t |-> "bool", bool |-> b]
PyInt(n) == [t |-> "int", int |-> n]
PyFloat(mant, scale) == [t |-> "float", mant |-> mant, scale |-> scale]
PyStr(s) == [t |-> "str", str |-> s]
PyList(items) == [t |-> "list", list |-> items]
PyDict(f) == [t |-> "dict", dict |-> f]
EmptyDict == PyDict(<<>>)

Return(val) == [ok |-> TRUE, v |-> val]
Raise(type, message) == [ok |-> FALSE, exc |-> type, msg |-> message]

\* dict.__setitem__ on a copy: the key is added or overwritten.
DictSet(d, k, val) == PyDict((k :> val) @@ d.dict)

\* dict.get(key, default)
DictGet(d, k, default) == IF k \in DOMAIN d.dict THEN d.dict[k] ELSE default

(***************************************************************************)
(* Text helpers.  Indices are 0-based as in Python.                        *)
(***************************************************************************)
Ch(s, idx) == IF idx >= 0 /\ idx < Len(s) THEN SubSeq(s, idx + 1, idx + 1) ELSE ""

Slice(s, from, to) == SubSeq(s, from + 1, IF to < Len(s) THEN to ELSE Len(s))

Contains(s, sub) == \E i \in 1..(Len(s) - Len(sub) + 1) : SubSeq(s, i, i + Len(sub) - 1) = sub

StartsWith(s, prefix) == Len(s) >= Len(prefix) /\ SubSeq(s, 1, Len(prefix)) = prefix

DigitChars == <<"0", "1", "2", "3", "4", "5", "6", "7", "8", "9">>

IsDigit(c) == \E i \in 1..10 : DigitChars[i] = c

DigitVal(c) == (CHOOSE i \in 1..10 : DigitChars[i] = c) - 1

Whitespace == {" ", "\t", "\n", "\r"}

RECURSIVE Pow10(_)
Pow10(k) == IF k <= 0 THEN 1 ELSE 10 * Pow10(k - 1)

\* index of the first character at or after idx that is not a digit
RECURSIVE DigitsEnd(_, _)
DigitsEnd(s, idx) == IF IsDigit(Ch(s, idx)) THEN DigitsEnd(s, idx + 1) ELSE idx

\* value of the decimal digits s[from:to]
RECURSIVE DigitsValue(_, _, _)
DigitsValue(s, from, to) ==
    IF to <= from THEN 0
    ELSE 10 * DigitsValue(s, from, to - 1) + DigitVal(Ch(s, to - 1))

\* index of the first character at or after idx that is not whitespace
RECURSIVE SkipWs(_, _)
SkipWs(s, idx) == IF Ch(s, idx) \in Whitespace THEN SkipWs(s, idx + 1) ELSE idx

\* index just before idx of the first character of trailing whitespace
RECURSIVE SkipWsBack(_, _)
SkipWsBack(s, idx) == IF idx > 0 /\ Ch(s, idx - 1) \in Whitespace THEN SkipWsBack(s, idx - 1) ELSE idx

(***************************************************************************)
(* json.loads (CPython json.decoder / json.scanner)                        *)
(* A scan yields [ok |-> TRUE, v |-> value, end |-> index after it] or     *)
(* [ok |-> FALSE, msg |-> reason, pos |-> index of the error].             *)
(***************************************************************************)
Scanned(val, e) == [ok |-> TRUE, v |-> val, end |-> e]
ScanError(reason, p) == [ok |-> FALSE, msg |-> reason, pos |-> p]

\* doc.count("\n", 0, pos)
CountNewlines(s, pos) == Cardinality({i \in 0..(pos - 1) : Ch(s, i) = "\n"})

\* doc.rindex("\n", 0, pos) + 1, or 0 when the text before pos has no newline
LineStart(s, pos) ==
    LET newlines == {i \in 0..(pos - 1) : Ch(s, i) = "\n"} IN
    IF newlines = {} THEN 0
    ELSE (CHOOSE i \in newlines : \A j \in newlines : j <= i) + 1

\* str(JSONDecodeError(msg, doc, pos))
JSONDecodeErrorMsg(reason, doc, pos) ==
    reason \o ": line " \o ToString(CountNewlines(doc, pos) + 1)
           \o " column " \o ToString(pos - LineStart(doc, pos) + 1)
           \o " (char " \o ToString(pos) \o ")"

Min(S) == CHOOSE i \in S : \A j \in S : i <= j

\* characters at which py_scanstring stops copying: the closing quote, a
\* backslash, a control character, or the end of the text ("")
StringStops == {"\"", "\\", "\n", "\t", "\r", ""}

\* index of the first character at or after idx that is in StringStops
RECURSIVE NextStop(_, _)
NextStop(s, idx) ==
    LET stops == {i \in idx..(idx + 7) : Ch(s, i) \in StringStops} IN
    IF stops = {} THEN NextStop(s, idx + 8) ELSE Min(stops)

\* py_scanstring: idx is the index after the opening quote at begin, or after
\* an escape sequence inside the literal
RECURSIVE ScanString(_, _, _)

\* py_scanstring, rest is the scan of the literal after the escape sequence at stop
ScanStringEscape(s, idx, stop, esc, rest) ==
    IF ~rest.ok THEN rest
    ELSE Scanned(PyStr(Slice(s, idx, stop)
                         \o (CASE esc = "n" -> "\n" [] esc = "t" -> "\t" [] OTHER -> esc)
                         \o rest.v.str),
                 rest.end)

\* py_scanstring, c is the character at stop and esc the one after it
ScanStringStop(s, idx, begin, stop, c, esc) ==
    CASE c = "\"" -> Scanned(PyStr(Slice(s, idx, stop)), stop + 1)
      [] c = "" -> ScanError("Unterminated string starting at", begin)
      [] c \in {"\n", "\t", "\r"} -> ScanError("Invalid control character at", stop)
      [] c = "\\" /\ esc = "" -> ScanError("Unterminated string starting at", begin)
      [] c = "\\" /\ esc \notin {"", "\"", "\\", "/", "n", "t"} -> ScanError("Invalid \\escape", stop)
      [] OTHER -> ScanStringEscape(s, idx, stop, esc, ScanString(s, stop + 2, begin))

\* py_scanstring, stop is the index of the first character of StringStops
ScanStringChunk(s, idx, begin, stop) ==
    ScanStringStop(s, idx, begin, stop, Ch(s, stop), Ch(s, stop + 1))

ScanString(s, idx, begin) == ScanStringChunk(s, idx, begin, NextStop(s, idx))

\* NUMBER_RE, the fraction digits end before fend
ScanNumberFrac(s, sign, istart, iend, fend) ==
    Scanned(PyFloat(sign * (DigitsValue(s, istart, iend) * Pow10(fend - iend - 1)
                            + DigitsValue(s, iend + 1, fend)),
                    fend - iend - 1), fend)

\* NUMBER_RE, the integer digits run from istart and end before iend
ScanNumberInt(s, idx, sign, istart, iend) ==
    CASE iend = istart -> ScanError("Expecting value", idx)
      [] iend # istart /\ Ch(s, iend) = "." /\ IsDigit(Ch(s, iend + 1)) ->
            ScanNumberFrac(s, sign, istart, iend, DigitsEnd(s, iend + 1))
      [] OTHER -> Scanned(PyInt(sign * DigitsValue(s, istart, iend)), iend)

ScanNumberSigned(s, idx, sign, istart) ==
    ScanNumberInt(s, idx, sign, istart,
                  IF Ch(s, istart) = "0" THEN istart + 1 ELSE DigitsEnd(s, istart))

\* NUMBER_RE: (-?(?:0|[1-9][0-9]*))(\.[0-9]+)?  (no exponent part)
ScanNumber(s, idx) ==
    IF Ch(s, idx) = "-" THEN ScanNumberSigned(s, idx, -1, idx + 1)
    ELSE ScanNumberSigned(s, idx, 1, idx)

RECURSIVE ScanOnce(_, _)

\* JSONObject, the pair key: value is followed by a comma; next is the index
\* of the first character after it that is not whitespace
ScanMemberNext(s, key, val, next) ==
    IF Ch(s, next) # "\""
    THEN ScanError("Expecting property name enclosed in double quotes", next)
    ELSE [ok |-> TRUE, key |-> key, v |-> val, more |-> TRUE, end |-> next]

\* JSONObject, after is the index of the first character after the value that
\* is not whitespace
ScanMemberEnd(s, key, val, after) ==
    CASE Ch(s, after) = "}" -> [ok |-> TRUE, key |-> key, v |-> val, more |-> FALSE, end |-> after + 1]
      [] Ch(s, after) = "," -> ScanMemberNext(s, key, val, SkipWs(s, after + 1))
      [] OTHER -> ScanError("Expecting ',' delimiter", after)

\* JSONObject, value is the scan of the text after the colon
ScanMemberValue(s, key, value) ==
    IF ~value.ok THEN value ELSE ScanMemberEnd(s, key, value.v, SkipWs(s, value.end))

\* JSONObject, colon is the index of the first character after the key that
\* is not whitespace
ScanMemberColon(s, key, colon) ==
    IF Ch(s, colon) # ":" THEN ScanError("Expecting ':' delimiter", colon)
    ELSE ScanMemberValue(s, key, ScanOnce(s, SkipWs(s, colon + 1)))

\* JSONObject, key is the scan of the key's string literal
ScanMemberKey(s, key) ==
    IF ~key.ok THEN key ELSE ScanMemberColon(s, key.v.str, SkipWs(s, key.end))

\* JSONObject, one "key": value pair from the key's opening quote at idx;
\* more tells whether a comma and another key follow
ScanMember(s, idx) == ScanMemberKey(s, ScanString(s, idx + 1, idx))

RECURSIVE JSONObjectLoop(_, _)

\* JSONObject, the pairs after member; of two pairs with the same key the
\* later one is kept
JSONObjectRest(member, rest) ==
    IF ~rest.ok THEN rest
    ELSE Scanned(PyDict(rest.v.dict @@ (member.key :> member.v)), rest.end)

JSONObjectMember(s, member) ==
    CASE ~member.ok -> member
      [] member.ok /\ ~member.more -> Scanned(PyDict(member.key :> member.v), member.end)
      [] OTHER -> JSONObjectRest(member, JSONObjectLoop(s, member.end))

\* JSONObject, the pairs from the key's opening quote at idx to the closing brace
JSONObjectLoop(s, idx) == JSONObjectMember(s, ScanMember(s, idx))

\* JSONArray, after is the index of the first character after the element
\* that is not whitespace
ScanElementEnd(s, val, after) ==
    CASE Ch(s, after) = "]" -> [ok |-> TRUE, v |-> val, more |-> FALSE, end |-> after + 1]
      [] Ch(s, after) = "," -> [ok |-> TRUE, v |-> val, more |-> TRUE, end |-> SkipWs(s, after + 1)]
      [] OTHER -> ScanError("Expecting ',' delimiter", after)

ScanElementValue(s, value) ==
    IF ~value.ok THEN value ELSE ScanElementEnd(s, value.v, SkipWs(s, value.end))

\* JSONArray, one element from its first character at idx
ScanElement(s, idx) == ScanElementValue(s, ScanOnce(s, idx))

RECURSIVE JSONArrayLoop(_, _)

\* JSONArray, the elements after element
JSONArrayRest(element, rest) ==
    IF ~rest.ok THEN rest ELSE Scanned(PyList(<<element.v>> \o rest.v.list), rest.end)

JSONArrayElement(s, element) ==
    CASE ~element.ok -> element
      [] element.ok /\ ~element.more -> Scanned(PyList(<<element.v>>), element.end)
      [] OTHER -> JSONArrayRest(element, JSONArrayLoop(s, element.end))

\* JSONArray, the elements from idx to the closing bracket
JSONArrayLoop(s, idx) == JSONArrayElement(s, ScanElement(s, idx))

\* scan_once for the text that starts with c at idx; first is the index of the
\* first character after idx that is not whitespace
ScanValue(s, idx, c, first) ==
    CASE c = "" -> ScanError("Expecting value", idx)
      [] c = "\"" -> ScanString(s, idx + 1, idx)
      [] c = "{" /\ Ch(s, first) = "}" -> Scanned(EmptyDict, first + 1)
      [] c = "{" /\ Ch(s, first) = "\"" -> JSONObjectLoop(s, first)
      [] c = "{" /\ Ch(s, first) \notin {"}", "\""} ->
            ScanError("Expecting property name enclosed in double quotes", first)
      [] c = "[" /\ Ch(s, first) = "]" -> Scanned(PyList(<<>>), first + 1)
      [] c = "[" /\ Ch(s, first) # "]" -> JSONArrayLoop(s, first)
      [] c = "n" /\ Slice(s, idx, idx + 4) = "null" -> Scanned(PyNone, idx + 4)
      [] c = "t" /\ Slice(s, idx, idx + 4) = "true" -> Scanned(PyBool(TRUE), idx + 4)
      [] c = "f" /\ Slice(s, idx, idx + 5) = "false" -> Scanned(PyBool(FALSE), idx + 5)
      [] OTHER -> ScanNumber(s, idx)

\* scan_once
ScanOnce(s, idx) == ScanValue(s, idx, Ch(s, idx), SkipWs(s, idx + 1))

\* JSONDecoder.decode, after raw_decode has returned a value ending before end
decode_end(s, val, end) ==
    IF end # Len(s) THEN Raise("JSONDecodeError", JSONDecodeErrorMsg("Extra data", s, end))
    ELSE Return(val)

\* JSONDecoder.decode, obj is the result of raw_decode
decode(s, obj) ==
    IF ~obj.ok THEN Raise("JSONDecodeError", JSONDecodeErrorMsg(obj.msg, s, obj.pos))
    ELSE decode_end(s, obj.v, SkipWs(s, obj.end))

\* json.loads(doc)
json_loads(doc) ==
    IF doc.t # "str"
    THEN Raise("TypeError", "the JSON object must be str, bytes or bytearray, not " \o doc.t)
    ELSE decode(doc.str, ScanOnce(doc.str, SkipWs(doc.str, 0)))

(***************************************************************************)
(* int(x) (CPython builtin), for the values json.loads can produce         *)
(***************************************************************************)
\* float_trunc with floor division in place of truncation toward zero
float_floor(mant, scale) == mant \div Pow10(scale)

\* float.__int__: truncation toward zero of mant / 10^scale
float_trunc(mant, scale) ==
    IF mant >= 0 THEN mant \div Pow10(scale) ELSE -((-mant) \div Pow10(scale))

\* int(str): surrounding whitespace, an optional sign, then decimal digits only
int_from_str(s) ==
    LET from == SkipWs(s, 0)
        to == SkipWsBack(s, Len(s))
        signed == Ch(s, from) \in {"+", "-"}
        dstart == IF signed THEN from + 1 ELSE from
        sign == IF Ch(s, from) = "-" THEN -1 ELSE 1
    IN  IF dstart < to /\ DigitsEnd(s, dstart) = to
        THEN Return(PyInt(sign * DigitsValue(s, dstart, to)))
        ELSE Raise("ValueError", "invalid literal for int() with base 10: '" \o s \o "'")

py_int(x) ==
    CASE x.t = "int" -> Return(x)
      [] x.t = "bool" -> Return(PyInt(IF x.bool THEN 1 ELSE 0))
      [] x.t = "float" -> Return(PyInt(float_trunc(x.mant, x.scale)))
      [] x.t = "str" -> int_from_str(x.str)
      [] OTHER -> Raise("TypeError",
                        "int() argument must be a string, a bytes-like object or a real number, not '"
                            \o x.t \o "'")

(***************************************************************************)
(* pydantic models (main.py, MODELS) and their validation (pydantic v2,    *)
(* lax mode, as FastAPI applies it to request bodies and return values)    *)
(***************************************************************************)
CodeRequest == << <<"code", "str">> >>

CodeResponse == << <<"original_score", "int">>, <<"refined_score", "int">>,
                   <<"bugs", "str">>, <<"performance", "str">>,
                   <<"improvements", "list[str]">>, <<"optimized_code", "str">>,
                   <<"explanation", "str">>, <<"time_complexity", "str">>,
                   <<"space_complexity", "str">> >>

TranslateRequest == << <<"code", "str">>, <<"target_language", "str">> >>

FieldNames(model) == {model[i][1] : i \in 1..Len(model)}

FieldError(type, message) == [ok |-> FALSE, type |-> type, msg |-> message]

\* a numeric string given for an int field
int_parsing(parsed) ==
    IF parsed.ok THEN parsed
    ELSE FieldError("int_parsing",
                    "Input should be a valid integer, unable to parse string as an integer")

\* validation of one value against a field annotation
validate_field(annotation, x) ==
    CASE annotation = "str" ->
            IF x.t = "str" THEN Return(x)
            ELSE FieldError("string_type", "Input should be a valid string")
      [] annotation = "int" ->
            IF x.t = "int" THEN Return(x)
            ELSE IF x.t = "bool" THEN Return(PyInt(IF x.bool THEN 1 ELSE 0))
            ELSE IF x.t = "float" THEN
                IF x.mant % Pow10(x.scale) = 0
                THEN Return(PyInt(float_trunc(x.mant, x.scale)))
                ELSE FieldError("int_from_float",
                                "Input should be a valid integer, got a number with a fractional part")
            ELSE IF x.t = "str" THEN int_parsing(int_from_str(x.str))
            ELSE FieldError("int_type", "Input should be a valid integer")
      [] annotation = "list[str]" ->
            IF x.t # "list" THEN FieldError("list_type", "Input should be a valid list")
            ELSE IF \A i \in 1..Len(x.list) : x.list[i].t = "str" THEN Return(x)
            ELSE FieldError("string_type", "Input should be a valid string")

\* the validated model, or one error per field whose result is not ok
\* (failed: the indices of those fields)
model_result(model, loc, result, failed) ==
    IF failed = <<>>
    THEN [ok |-> TRUE,
          v |-> PyDict([name \in FieldNames(model) |->
                          result[CHOOSE i \in 1..Len(model) : model[i][1] = name].v])]
    ELSE [ok |-> FALSE,
          errors |-> [k \in 1..Len(failed) |->
                        PyDict([type |-> PyStr(result[failed[k]].type),
                                loc |-> PyList(Append(loc, PyStr(model[failed[k]][1]))),
                                msg |-> PyStr(result[failed[k]].msg)])]]

\* result: the validation result of each field of the model, in declaration order
model_fields(model, loc, result) ==
    model_result(model, loc, result,
                 SelectSeq([i \in 1..Len(model) |-> i], LAMBDA i : ~result[i].ok))

\* the error for data that is not a mapping
model_attributes_type(loc) ==
    [ok |-> FALSE,
     errors |-> << PyDict([type |-> PyStr("model_attributes_type"),
                           loc |-> PyList(loc),
                           msg |-> PyStr("Input should be a valid dictionary or object to extract fields from")]) >>]

\* the value of a field declared with a default (code: str = "")
field_default(annotation) ==
    CASE annotation = "str" -> PyStr("") [] annotation = "int" -> PyInt(0) [] OTHER -> PyList(<<>>)

\* validate_model with every field given a default, so that a missing field
\* is no error
validate_model_defaulting(model, loc, data) ==
    IF data.t # "dict" THEN model_attributes_type(loc)
    ELSE model_fields(model, loc,
                      [i \in 1..Len(model) |->
                          IF model[i][1] \in DOMAIN data.dict
                          THEN validate_field(model[i][2], data.dict[model[i][1]])
                          ELSE Return(field_default(model[i][2]))])

\* BaseModel validation of a Python value: the validated fields, or the error list
validate_model(model, loc, data) ==
    IF data.t # "dict" THEN model_attributes_type(loc)
    ELSE model_fields(model, loc,
                      [i \in 1..Len(model) |->
                          IF model[i][1] \in DOMAIN data.dict
                          THEN validate_field(model[i][2], data.dict[model[i][1]])
                          ELSE FieldError("missing", "Field required")])

(***************************************************************************)
(* HTTP responses as FastAPI / Starlette produce them                      *)
(***************************************************************************)
JSONResponse(status_code, content) ==
    [status |-> status_code, media_type |-> "application/json", body |-> content]

PlainTextResponse(status_code, text) ==
    [status |-> status_code, media_type |-> "text/plain", body |-> PyStr(text)]

\* fastapi.exception_handlers.http_exception_handler
http_exception_handler(status_code, detail) ==
    JSONResponse(status_code, PyDict([detail |-> PyStr(detail)]))

\* fastapi.exception_handlers.request_validation_exception_handler
request_validation_exception_handler(errors) ==
    JSONResponse(422, PyDict([detail |-> PyList(errors)]))

\* starlette ServerErrorMiddleware: an exception no handler is registered for
server_error_response == PlainTextResponse(500, "Internal Server Error")

\* the parsed body against the route's model; a body that is not JSON is an error
validate_body(model, json) ==
    IF ~json.ok
    THEN [ok |-> FALSE,
          errors |-> << PyDict([type |-> PyStr("json_invalid"),
                                loc |-> PyList(<<PyStr("body")>>),
                                msg |-> PyStr("JSON decode error")]) >>]
    ELSE validate_model(model, <<PyStr("body")>>, json.v)

\* FastAPI body parsing for a route whose only parameter is a pydantic model
parse_body(model, raw) == validate_body(model, json_loads(PyStr(raw)))

\* the response for a validated return value; a ResponseValidationError is
\* raised outside the handler's try block and no handler is registered for it
validated_response(validated) ==
    IF validated.ok THEN JSONResponse(200, validated.v) ELSE server_error_response

\* serialize_response of a route declared without response_model
serialize_response_unvalidated(response_model, content) == JSONResponse(200, content)

\* serialize_response: the handler's return value against response_model
serialize_response(response_model, content) ==
    validated_response(validate_model(response_model, <<PyStr("response")>>, content))

(***************************************************************************)
(* Process start-up (main.py, CONFIGURATION)                               *)
(***************************************************************************)
Unbound == [t |-> "unbound", unbound |-> 0]

\* load_dotenv(): variables of the .env file are added to os.environ,
\* variables already set are kept (override=False)
load_dotenv(os_environ, dotenv) ==
    [k \in (DOMAIN os_environ) \cup (DOMAIN dotenv) |->
        IF k \in DOMAIN os_environ THEN os_environ[k] ELSE dotenv[k]]

\* os.getenv(name)
os_getenv(os_environ, name) ==
    IF name \in DOMAIN os_environ THEN PyStr(os_environ[name]) ELSE PyNone

\* truth value of an Optional[str]
Truthy(x) == x.t = "str" /\ x.str # ""

AsyncClient(key) == [api_key |-> key]

FastAPI(name) ==
    [title |-> name,
     middleware |-> <<[cls |-> "CORSMiddleware", allow_origins |-> <<"*">>,
                       allow_credentials |-> TRUE, allow_methods |-> <<"*">>,
                       allow_headers |-> <<"*">>]>>,
     routes |-> {"/review", "/translate"}]

(***************************************************************************)
(* The handlers (main.py, CORE LOGIC)                                      *)
(***************************************************************************)
review_system_prompt ==
    "You are a strict Senior Software Architect. Analyze code using this exact 100-point rubric:\n"
    \o "1. Logic & Correctness (30 pts): Does it work? Are there edge-case bugs?\n"
    \o "2. Time/Space Efficiency (25 pts): Is the algorithm optimal (Big O)?\n"
    \o "3. Security & Safety (15 pts): Are there vulnerabilities or crash risks?\n"
    \o "4. Readability & Standards (15 pts): Variable naming, clean code patterns?\n"
    \o "5. Maintainability (15 pts): Is the architecture scalable?\n\n"
    \o "STRICT RULES:\n"
    \o "- Calculate the 'original_score' by summing the points above for the USER'S code.\n"
    \o "- Calculate the 'refined_score' for YOUR optimized version (this should be 95-100).\n"
    \o "- If the user's code is already optimal, 'original_score' must be 100.\n"
    \o "- 'optimized_code' must be a single string. Use '\\n' for new lines and escape all quotes.\n"
    \o "- Return ONLY a valid JSON object. No markdown, no triple quotes.\n\n"
    \o "JSON Schema:\n"
    \o "{\n"
    \o "    \"original_score\": int,\n"
    \o "    \"refined_score\": int,\n"
    \o "    \"bugs\": \"string\",\n"
    \o "    \"performance\": \"string\",\n"
    \o "    \"improvements\": [\"list\"],\n"
    \o "    \"optimized_code\": \"string\",\n"
    \o "    \"explanation\": \"string\",\n"
    \o "    \"time_complexity\": \"string\",\n"
    \o "    \"space_complexity\": \"string\"\n"
    \o "}"

translate_system_prompt(target_language) ==
    "You are a polyglot expert. Translate this code to " \o target_language \o ".\n"
    \o "Rules: Return ONLY JSON: {\"translated_code\": \"string\"}. "
    \o "Use '\\n' and escape double quotes. No markdown tags."

\* the arguments of client.chat.completions.create
chat_completions_create(system_content, user_content) ==
    [messages |-> <<[role |-> "system", content |-> system_content],
                    [role |-> "user", content |-> user_content]>>,
     model |-> "llama-3.3-70b-versatile",
     temperature |-> "0.1",
     response_format |-> [type |-> "json_object"]]

\* What the await on create() resumes with: an exception raised by the call,
\* or a completion whose choices carry message.content.
UpstreamRaises(type, message) ==
    [raised |-> TRUE, exc |-> type, msg |-> message, choices |-> <<>>]

Completion(contents) ==
    [raised |-> FALSE, exc |-> "", msg |-> "",
     choices |-> [i \in 1..Len(contents) |-> [message |-> [content |-> contents[i]]]]]

\* response.choices[0].message.content
first_choice_content(outcome) ==
    IF outcome.raised THEN Raise(outcome.exc, outcome.msg)
    ELSE IF Len(outcome.choices) = 0 THEN Raise("IndexError", "list index out of range")
    ELSE Return(outcome.choices[1].message.content)

\* ai_data[key] = score, when int() returned it
store_score(ai_data, key, score) ==
    IF score.ok THEN Return(DictSet(ai_data, key, score.v)) ELSE score

\* ai_data[key] = int(ai_data.get(key, 0))
coerce_score(ai_data, key) ==
    IF ai_data.t # "dict"
    THEN Raise("AttributeError", "'" \o ai_data.t \o "' object has no attribute 'get'")
    ELSE store_score(ai_data, key, py_int(DictGet(ai_data, key, PyInt(0))))

\* line 94, reached when line 93 did not raise
coerce_refined_score(original) ==
    IF ~original.ok THEN original ELSE coerce_score(original.v, "refined_score")

\* line 93, reached when line 90 did not raise
coerce_original_score(ai_data) ==
    IF ~ai_data.ok THEN ai_data
    ELSE coerce_refined_score(coerce_score(ai_data.v, "original_score"))

\* json.loads(response.choices[0].message.content)
loads_content(content) ==
    IF ~content.ok THEN content ELSE json_loads(content.v)

\* review_code, the try block from the resumption of the await to the return
review_try(outcome) ==
    coerce_original_score(loads_content(first_choice_content(outcome)))

\* review_code, the except block: the line printed and the HTTPException raised
review_except(e) ==
    [printed |-> "Error: " \o e.msg,
     status_code |-> 500,
     detail |-> "Heuristic analysis engine failed."]

\* translate_code, the try block from the resumption of the await to the return
translate_try(outcome) ==
    loads_content(first_choice_content(outcome))

\* translate_except with a fixed comment in place of str(e)
translate_except_generic(e) ==
    PyDict([translated_code |-> PyStr("// Translation error")])

\* translate_code, the except block: the value returned
translate_except(e) ==
    PyDict([translated_code |-> PyStr("// Translation error: " \o e.msg)])

(***************************************************************************)
(* Inputs: environments, request bodies and upstream outcomes              *)
(***************************************************************************)
NumRequests == 2
MaxExcess == 2
MaxImprovements == 2

Requests == 1..NumRequests

NoVariables == <<>>

Environments == {NoVariables, [GROQ_API_KEY |-> ""], [GROQ_API_KEY |-> "gsk_live"]}

DotenvFiles == {NoVariables, [GROQ_API_KEY |-> ""], [GROQ_API_KEY |-> "gsk_live"]}

Quote(s) == "\"" \o s \o "\""

Omitted == "<omitted>"

\* the members keys[lo..hi] of a JSON object text; a key whose text is
\* Omitted is left out
RECURSIVE ObjectMembers(_, _, _, _)
ObjectMembers(keys, texts, lo, hi) ==
    IF lo = hi
    THEN IF texts[keys[lo]] = Omitted THEN "" ELSE Quote(keys[lo]) \o ": " \o texts[keys[lo]]
    ELSE LET mid == (lo + hi) \div 2
             left == ObjectMembers(keys, texts, lo, mid)
             right == ObjectMembers(keys, texts, mid + 1, hi)
         IN  IF left = "" THEN right
             ELSE IF right = "" THEN left
             ELSE left \o ", " \o right

ObjectText(keys, texts) == "{" \o ObjectMembers(keys, texts, 1, Len(keys)) \o "}"

\* the elements lo..hi of a JSON array text of strings
RECURSIVE ArrayItems(_, _)
ArrayItems(lo, hi) ==
    IF lo > hi THEN ""
    ELSE IF lo = hi THEN Quote("improvement " \o ToString(lo))
    ELSE ArrayItems(lo, (lo + hi) \div 2) \o ", " \o ArrayItems((lo + hi) \div 2 + 1, hi)

ArrayText(n) == "[" \o ArrayItems(1, n) \o "]"

ResponseKeys == [i \in 1..Len(CodeResponse) |-> CodeResponse[i][1]]

ScoreKeys == {"original_score", "refined_score"}

OtherKeys == FieldNames(CodeResponse) \ ScoreKeys

\* a reply that follows the JSON schema of the prompt
SchemaReply ==
    [original_score |-> "85",
     refined_score |-> "97",
     bugs |-> Quote("Off-by-one in the loop bound"),
     performance |-> Quote("Quadratic scan"),
     improvements |-> ArrayText(1),
     optimized_code |-> Quote("def f(x):\\n    return x + 1"),
     explanation |-> Quote("Escaped \\\"quotes\\\" are kept"),
     time_complexity |-> Quote("O(n)"),
     space_complexity |-> Quote("O(1)")]

ReviewReply(overrides) == ObjectText(ResponseKeys, overrides @@ SchemaReply)

\* integer scores run from MaxExcess below the rubric's range to MaxExcess above it
IntScoreTexts ==
    {ToString(n) : n \in ((0 - MaxExcess)..0) \cup {85} \cup (100..(100 + MaxExcess))}

ScoreTexts ==
    IntScoreTexts \cup {Quote("85"), Quote(" 42 "), Quote("+7"), Quote("-3"), Quote("120"),
                        "85.7", "-0.5", "-7.25", "100.5", "60.0", "true",
                        "null", Quote("high"), Quote("85.5"), Quote(""), "[85]", Omitted}

FieldTexts ==
    {"null", "5", "1.5", "true", "[]", "[1]", "[\"a\", null]", "{}", Quote(""), Quote("text"),
     Omitted}
        \cup {ArrayText(n) : n \in 0..MaxImprovements}

ReviewReplies ==
    {ReviewReply([original_score |-> o, refined_score |-> r]) : o \in ScoreTexts, r \in ScoreTexts}
        \cup {ReviewReply(k :> text) : k \in OtherKeys, text \in FieldTexts}
        \cup {ReviewReply([confidence |-> "0.9"]),
              ObjectText(ResponseKeys \o <<"confidence">>, [confidence |-> "0.9"] @@ SchemaReply),
              ObjectText(ResponseKeys \o <<"original_score">>, SchemaReply),
              " " \o ReviewReply(<<>>) \o " "}

TranslateReplies ==
    {ObjectText(<<"translated_code">>, [translated_code |-> text]) :
        text \in {Quote("fn main() {}"), Quote(""), "5", "null", "[\"fn main() {}\"]", Omitted}}
        \cup {"{\"translated_code\": \"package main\", \"notes\": \"idiomatic\"}",
              "{\"code\": \"package main\"}"}

OtherReplies ==
    {"[]", "[1, 2]", "5", "-1.5", "\"ok\"", "null", "true",
     "", "   ", "Here is the JSON: {}", "I cannot review this code.",
     "{\"original_score\": 85", "{\"original_score\": 85,}", "{\"original_score\" 85}",
     "{original_score: 85}", "{} trailing", "{\"bugs\": \"unterminated}",
     SubSeq(ReviewReply(<<>>), 1, Len(ReviewReply(<<>>)) - 1)}

ReplyTexts == ReviewReplies \cup TranslateReplies \cup OtherReplies

UpstreamErrors ==
    {UpstreamRaises("APIConnectionError", "Connection error."),
     UpstreamRaises("APITimeoutError", "Request timed out."),
     UpstreamRaises("RateLimitError", "Error code: 429 - rate limit reached")}

Outcomes ==
    UpstreamErrors
        \cup {Completion(<<>>), Completion(<<PyNone>>)}
        \cup {Completion(<<PyStr(text)>>) : text \in ReplyTexts}

CoreOutcomes ==
    {UpstreamRaises("APIConnectionError", "Connection error."),
     Completion(<<PyNone>>),
     Completion(<<PyStr(ReviewReply(<<>>))>>),
     Completion(<<PyStr(ReviewReply([original_score |-> Quote("high")]))>>),
     Completion(<<PyStr(ReviewReply([bugs |-> Omitted]))>>),
     Completion(<<PyStr("I cannot review this code.")>>),
     Completion(<<PyStr("{\"translated_code\": \"fn main() {}\"}")>>),
     Completion(<<PyStr("{}")>>)}

Bodies ==
    {"{\"code\": \"def f(x): return x+1\"}",
     "{\"code\": \"\"}",
     "{\"code\": \"print(1)\", \"target_language\": \"Go\"}",
     "{\"code\": \"print(1)\", \"target_language\": 7}",
     "{\"target_language\": \"Go\"}",
     "{\"source\": \"def f(x): return x+1\"}",
     "{\"code\": null}",
     "{\"code\": 5}",
     "{}",
     "[\"code\"]",
     "{\"code\": \"def f(x)"}

CoreBodies ==
    {"{\"code\": \"def f(x): return x+1\"}",
     "{\"code\": \"print(1)\", \"target_language\": \"Go\"}",
     "{\"target_language\": \"Go\"}"}

(***************************************************************************)
(* State                                                                   *)
(***************************************************************************)
VARIABLES
    phase,          \* "import" while main.py is being loaded, then "serving" or "crashed"
    environ,        \* os.environ
    GROQ_API_KEY,   \* module global
    client,         \* module global: the AsyncClient
    app,            \* module global: the FastAPI application
    req             \* per request: the exchange and the handler's coroutine frame

vars == <<phase, environ, GROQ_API_KEY, client, app, req>>

NoRequest ==
    [pc |-> "idle", route |-> "", body |-> "", request |-> PyNone, calls |-> <<>>,
     outcomes |-> <<>>, printed |-> <<>>, responses |-> <<>>]

Init ==
    /\ phase = "import"
    /\ environ \in Environments
    /\ GROQ_API_KEY = Unbound
    /\ client = Unbound
    /\ app = Unbound
    /\ req = [r \in Requests |-> NoRequest]

(***************************************************************************)
(* Actions                                                                 *)
(***************************************************************************)
\* Startup without the check of lines 12-13
Startup_unchecked(dotenv) ==
    /\ phase = "import"
    /\ environ' = load_dotenv(environ, dotenv)
    /\ GROQ_API_KEY' = os_getenv(environ', "GROQ_API_KEY")
    /\ client' = AsyncClient(IF GROQ_API_KEY'.t = "str" THEN GROQ_API_KEY'.str ELSE "")
    /\ app' = FastAPI("CodeRefine AI Engine")
    /\ phase' = "serving"
    /\ UNCHANGED req

\* main.py lines 10-25, run once when the module is imported
Startup(dotenv) ==
    /\ phase = "import"
    /\ environ' = load_dotenv(environ, dotenv)
    /\ GROQ_API_KEY' = os_getenv(environ', "GROQ_API_KEY")
    /\ IF ~Truthy(GROQ_API_KEY')
       THEN /\ phase' = "crashed"
            /\ UNCHANGED <<client, app>>
       ELSE /\ client' = AsyncClient(GROQ_API_KEY'.str)
            /\ app' = FastAPI("CodeRefine AI Engine")
            /\ phase' = "serving"
    /\ UNCHANGED req

\* the request record after body validation against CodeRequest: answered
\* with 422, or suspended at the await with the call recorded
review_code_entered(request, raw, parsed) ==
    IF ~parsed.ok
    THEN [request EXCEPT !.pc = "done", !.route = "/review", !.body = raw,
                         !.responses = <<request_validation_exception_handler(parsed.errors)>>]
    ELSE [request EXCEPT !.pc = "awaiting", !.route = "/review", !.body = raw,
                         !.request = parsed.v,
                         !.calls = Append(@, chat_completions_create(
                             review_system_prompt,
                             "Perform a rubric-based review of this code:\n\n"
                                 \o parsed.v.dict["code"].str))]

\* POST /review: the body is validated against CodeRequest; review_code then
\* runs up to its await on client.chat.completions.create
review_code_await(r, raw) ==
    /\ phase = "serving"
    /\ req[r].pc = "idle"
    /\ req' = [req EXCEPT ![r] = review_code_entered(req[r], raw, parse_body(CodeRequest, raw))]
    /\ UNCHANGED <<phase, environ, GROQ_API_KEY, client, app>>

\* the line printed and the response sent when the try block raised e
review_code_failed(request, outcome, e) ==
    [request EXCEPT !.pc = "done", !.outcomes = Append(@, outcome),
                    !.printed = Append(@, e.printed),
                    !.responses = Append(@, http_exception_handler(e.status_code, e.detail))]

\* the request record once the try block has returned or raised
review_code_responded(request, outcome, result) ==
    IF result.ok
    THEN [request EXCEPT !.pc = "done", !.outcomes = Append(@, outcome),
                         !.responses = Append(@, serialize_response(CodeResponse, result.v))]
    ELSE review_code_failed(request, outcome, review_except(result))

\* review_code_resume that calls the model a second time when the first attempt fails
review_code_resume_retry(r, outcome) ==
    /\ req[r].pc = "awaiting"
    /\ req[r].route = "/review"
    /\ req' = [req EXCEPT ![r] =
                   IF ~review_try(outcome).ok /\ Len(req[r].calls) < 2
                   THEN [@ EXCEPT !.calls = Append(@, req[r].calls[1])]
                   ELSE review_code_responded(req[r], outcome, review_try(outcome))]
    /\ UNCHANGED <<phase, environ, GROQ_API_KEY, client, app>>

\* review_code_resume behind a circuit breaker kept on the shared client: once a
\* review has failed, the reviews that resume later fail without looking at their reply
review_code_resume_breaker(r, outcome) ==
    /\ req[r].pc = "awaiting"
    /\ req[r].route = "/review"
    /\ req' = [req EXCEPT ![r] =
                   review_code_responded(req[r], outcome,
                       IF client.api_key = "" THEN Raise("RuntimeError", "circuit open")
                       ELSE review_try(outcome))]
    /\ client' = IF req'[r].responses[1].status = 200 THEN client ELSE AsyncClient("")
    /\ UNCHANGED <<phase, environ, GROQ_API_KEY, app>>

\* review_code from the resumption of the await to the response
review_code_resume(r, outcome) ==
    /\ req[r].pc = "awaiting"
    /\ req[r].route = "/review"
    /\ req' = [req EXCEPT ![r] = review_code_responded(req[r], outcome, review_try(outcome))]
    /\ UNCHANGED <<phase, environ, GROQ_API_KEY, client, app>>

\* the request record after body validation against TranslateRequest
translate_code_entered(request, raw, parsed) ==
    IF ~parsed.ok
    THEN [request EXCEPT !.pc = "done", !.route = "/translate", !.body = raw,
                         !.responses = <<request_validation_exception_handler(parsed.errors)>>]
    ELSE [request EXCEPT !.pc = "awaiting", !.route = "/translate", !.body = raw,
                         !.request = parsed.v,
                         !.calls = Append(@, chat_completions_create(
                             translate_system_prompt(parsed.v.dict["target_language"].str),
                             parsed.v.dict["code"].str))]

\* POST /translate: the body is validated against TranslateRequest;
\* translate_code then runs up to its await
translate_code_await(r, raw) ==
    /\ phase = "serving"
    /\ req[r].pc = "idle"
    /\ req' = [req EXCEPT ![r] = translate_code_entered(req[r], raw, parse_body(TranslateRequest, raw))]
    /\ UNCHANGED <<phase, environ, GROQ_API_KEY, client, app>>

\* the value translate_code returns: from the try block, or from the except block
translate_code_returned(result) ==
    IF result.ok THEN result.v ELSE translate_except(result)

\* translate_code from the resumption of the await to the response
\* (no response_model: the returned value is encoded as it is)
translate_code_resume(r, outcome) ==
    /\ req[r].pc = "awaiting"
    /\ req[r].route = "/translate"
    /\ req' = [req EXCEPT ![r] =
                   [@ EXCEPT !.pc = "done", !.outcomes = Append(@, outcome),
                             !.responses = Append(@, JSONResponse(200,
                                 translate_code_returned(translate_try(outcome))))]]
    /\ UNCHANGED <<phase, environ, GROQ_API_KEY, client, app>>

\* one request, every input
Next ==
    \/ \E dotenv \in DotenvFiles : Startup(dotenv)
    \/ \E raw \in Bodies : review_code_await(1, raw)
    \/ \E outcome \in Outcomes : review_code_resume(1, outcome)
    \/ \E raw \in Bodies : translate_code_await(1, raw)
    \/ \E outcome \in Outcomes : translate_code_resume(1, outcome)

Spec == Init /\ [][Next]_vars

\* every request in flight at once
NextConcurrent ==
    \/ \E dotenv \in DotenvFiles : Startup(dotenv)
    \/ \E r \in Requests, raw \in CoreBodies : review_code_await(r, raw)
    \/ \E r \in Requests, outcome \in CoreOutcomes : review_code_resume(r, outcome)
    \/ \E r \in Requests, raw \in CoreBodies : translate_code_await(r, raw)
    \/ \E r \in Requests, outcome \in CoreOutcomes : translate_code_resume(r, outcome)

SpecConcurrent == Init /\ [][NextConcurrent]_vars

(***************************************************************************)
(* Properties                                                              *)
(***************************************************************************)
Handled(r) == req[r].pc = "done"

\* the body passed validation and the handler was entered
Entered(r) == req[r].request.t = "dict"

TheResponse(r) == req[r].responses[1]

TheOutcome(r) == req[r].outcomes[1]

\* x is of the type a CodeResponse field is declared with
HasType(x, annotation) ==
    CASE annotation = "int" -> x.t = "int"
      [] annotation = "str" -> x.t = "str"
      [] annotation = "list[str]" -> x.t = "list" /\ \A i \in 1..Len(x.list) : x.list[i].t = "str"

\* every declared field of CodeResponse is in d with its declared type
IsCodeResponse(d) ==
    /\ d.t = "dict"
    /\ \A i \in 1..Len(CodeResponse) :
          /\ CodeResponse[i][1] \in DOMAIN d.dict
          /\ HasType(d.dict[CodeResponse[i][1]], CodeResponse[i][2])

IsFixedFailure(response) ==
    /\ response.status = 500
    /\ response.media_type = "application/json"
    /\ response.body.t = "dict"
    /\ DOMAIN response.body.dict = {"detail"}
    /\ response.body.dict["detail"] = PyStr("Heuristic analysis engine failed.")

\* the upstream call returned a completion whose text is a JSON object
RepliedObject(outcome) ==
    /\ ~outcome.raised
    /\ Len(outcome.choices) > 0
    /\ outcome.choices[1].message.content.t = "str"
    /\ json_loads(outcome.choices[1].message.content).ok
    /\ json_loads(outcome.choices[1].message.content).v.t = "dict"

ReplyOf(outcome) == json_loads(outcome.choices[1].message.content).v.dict

\* Claim C1: every POST /review with a well-formed body is answered either
\* with status 200 and a CodeResponse body or with status 500 and the body
\* {"detail": "Heuristic analysis engine failed."}, whatever the upstream
\* outcome was.
C1_ReviewAnswers200OrFixed500 ==
    \A r \in Requests :
        (Handled(r) /\ req[r].route = "/review" /\ Entered(r))
            => \/ TheResponse(r).status = 200 /\ IsCodeResponse(TheResponse(r).body)
               \/ IsFixedFailure(TheResponse(r))

\* Claim C2: every POST /translate with a well-formed body is answered with
\* status 200 and a body whose translated_code is a non-empty string,
\* whatever the upstream outcome was.
C2_TranslateAlwaysCarriesCode ==
    \A r \in Requests :
        (Handled(r) /\ req[r].route = "/translate" /\ Entered(r))
            => /\ TheResponse(r).status = 200
               /\ TheResponse(r).body.t = "dict"
               /\ "translated_code" \in DOMAIN TheResponse(r).body.dict
               /\ TheResponse(r).body.dict["translated_code"].t = "str"
               /\ TheResponse(r).body.dict["translated_code"].str # ""

\* Claim C3: in every 200 response of POST /review both scores are integers
\* in the closed range 0..100.
C3_ScoresWithinRubric ==
    \A r \in Requests :
        (Handled(r) /\ req[r].route = "/review" /\ TheResponse(r).status = 200)
            => \A k \in ScoreKeys :
                  /\ TheResponse(r).body.dict[k].t = "int"
                  /\ TheResponse(r).body.dict[k].int \in 0..100

\* the request body is a JSON object without a code member
LacksCode(raw) ==
    LET json == json_loads(PyStr(raw)) IN
    json.ok /\ json.v.t = "dict" /\ "code" \notin DOMAIN json.v.dict

\* a 422 response whose detail reports the missing code field
ReportsMissingCode(response) ==
    /\ response.status = 422
    /\ response.body.t = "dict"
    /\ "detail" \in DOMAIN response.body.dict
    /\ response.body.dict["detail"].t = "list"
    /\ \E i \in 1..Len(response.body.dict["detail"].list) :
          LET error == response.body.dict["detail"].list[i].dict IN
          /\ error["type"] = PyStr("missing")
          /\ error["loc"] = PyList(<<PyStr("body"), PyStr("code")>>)

\* Claim C4: a POST to /review or /translate whose body lacks the code field
\* is answered with a validation error (status 422, not 500) before the
\* handler runs: the request model is never built, the external model is
\* never called and nothing is printed.
C4_MissingCodeRejected ==
    \A r \in Requests :
        (req[r].pc # "idle" /\ LacksCode(req[r].body))
            => /\ Handled(r)
               /\ Len(req[r].responses) = 1
               /\ ReportsMissingCode(TheResponse(r))
               /\ ~Entered(r)
               /\ req[r].calls = <<>>
               /\ req[r].outcomes = <<>>
               /\ req[r].printed = <<>>

C4_Witness ==
    \E r \in Requests :
        /\ Handled(r)
        /\ req[r].route = "/translate"
        /\ req[r].body = "{\"target_language\": \"Go\"}"
        /\ TheResponse(r).status = 422

\* the upstream call raised, or the text it returned is not parseable JSON
UpstreamFailed(outcome) ==
    \/ outcome.raised
    \/ /\ Len(outcome.choices) > 0
       /\ outcome.choices[1].message.content.t = "str"
       /\ ~json_loads(outcome.choices[1].message.content).ok

FailureMessage(outcome) ==
    IF outcome.raised THEN outcome.msg
    ELSE json_loads(outcome.choices[1].message.content).msg

\* Claim C5: when the upstream call of a well-formed POST /translate fails
\* (the call raises, or the reply text is not parseable JSON) the response
\* has status 200 and a body whose only field is translated_code, a string
\* that contains "Translation error:" followed by the failure's message.
C5_TranslateFailureIsEmbedded ==
    \A r \in Requests :
        (Handled(r) /\ req[r].route = "/translate" /\ Entered(r) /\ UpstreamFailed(TheOutcome(r)))
            => /\ TheResponse(r).status = 200
               /\ TheResponse(r).body.t = "dict"
               /\ DOMAIN TheResponse(r).body.dict = {"translated_code"}
               /\ TheResponse(r).body.dict["translated_code"].t = "str"
               /\ Contains(TheResponse(r).body.dict["translated_code"].str,
                           "Translation error: " \o FailureMessage(TheOutcome(r)))

C5_Witness ==
    \E r \in Requests :
        /\ Handled(r) /\ Entered(r)
        /\ req[r].route = "/translate"
        /\ TheOutcome(r) = Completion(<<PyStr("I cannot review this code.")>>)
        /\ TheResponse(r) = JSONResponse(200, PyDict([translated_code |->
              PyStr("// Translation error: Expecting value: line 1 column 1 (char 0)")]))

\* the reply object omits one of the seven non-score fields or gives it a
\* value that is not of the declared type
OmitsOrMistypes(reply) ==
    \E i \in 1..Len(CodeResponse) :
        /\ CodeResponse[i][1] \in OtherKeys
        /\ \/ CodeResponse[i][1] \notin DOMAIN reply
           \/ ~HasType(reply[CodeResponse[i][1]], CodeResponse[i][2])

\* Claim C6: whenever POST /review answers with status 200 the body holds all
\* nine CodeResponse fields, each of its declared type; a reply object that
\* omits one of the seven non-score fields or mistypes it is never answered
\* with status 200.
C6_Review200IsCodeResponse ==
    \A r \in Requests :
        (Handled(r) /\ req[r].route = "/review" /\ Entered(r))
            => /\ TheResponse(r).status = 200 => IsCodeResponse(TheResponse(r).body)
               /\ (RepliedObject(TheOutcome(r)) /\ OmitsOrMistypes(ReplyOf(TheOutcome(r))))
                     => TheResponse(r).status # 200

C6_Witness ==
    \E r \in Requests :
        /\ Handled(r) /\ Entered(r)
        /\ req[r].route = "/review"
        /\ RepliedObject(TheOutcome(r))
        /\ "confidence" \in DOMAIN ReplyOf(TheOutcome(r))
        /\ TheResponse(r).status = 200
        /\ DOMAIN TheResponse(r).body.dict = FieldNames(CodeResponse)

\* the integers a score text may denote
OracleRange == (0 - 200)..200

\* the string is the decimal numeral of n, with an optional plus sign and
\* optional single spaces around it
Denotes(str, n) ==
    \E left \in {"", " "}, sign \in {"", "+"}, right \in {"", " "} :
        str = left \o sign \o ToString(n) \o right

\* n is the number mant / 10^scale with its fractional part dropped
IsTruncationOf(n, mant, scale) ==
    IF mant >= 0
    THEN n * Pow10(scale) <= mant /\ mant < (n + 1) * Pow10(scale)
    ELSE (n - 1) * Pow10(scale) < mant /\ mant <= n * Pow10(scale)

\* n is the integer conversion of the JSON value x
IsIntegerOf(n, x) ==
    CASE x.t = "int" -> n = x.int
      [] x.t = "bool" -> n = (IF x.bool THEN 1 ELSE 0)
      [] x.t = "float" -> IsTruncationOf(n, x.mant, x.scale)
      [] x.t = "str" -> Denotes(x.str, n)
      [] OTHER -> FALSE

\* the score the response must carry for key k of the reply
IsExpectedScore(n, reply, k) ==
    IF k \in DOMAIN reply THEN IsIntegerOf(n, reply[k]) ELSE n = 0

\* every score of the reply is omitted or integer-convertible and the seven
\* other fields are valid
WithinCoercion(reply) ==
    /\ ~OmitsOrMistypes(reply)
    /\ \A k \in ScoreKeys : \E n \in OracleRange : IsExpectedScore(n, reply, k)

KeyInEnvironment == "GROQ_API_KEY" \in DOMAIN environ /\ environ["GROQ_API_KEY"] # ""

\* Claim C8: when GROQ_API_KEY is absent from the process environment as
\* start-up reads it, start-up fails before the client and the application
\* exist, and every request that is being handled or was handled belongs to
\* a process that found the key at start-up.
C8_NoServiceWithoutKey ==
    /\ (phase # "import" /\ ~KeyInEnvironment) => phase = "crashed"
    /\ phase = "crashed" =>
          /\ client = Unbound
          /\ app = Unbound
          /\ \A r \in Requests : req[r].pc = "idle"
    /\ \A r \in Requests :
          req[r].pc # "idle" =>
              /\ KeyInEnvironment
              /\ phase = "serving"
              /\ client = AsyncClient(environ["GROQ_API_KEY"])

C8_Witness ==
    /\ phase = "crashed"
    /\ "GROQ_API_KEY" \notin DOMAIN environ
    /\ client = Unbound
    /\ app = Unbound

\* Claim C9: a request that passes body validation invokes the external
\* model exactly once; when the call fails or its reply fails to parse the
\* handler answers (500 for review, 200 for translate) without a second
\* call, and the request ends with exactly one response.
C9_SingleAttempt ==
    \A r \in Requests :
        /\ Entered(r) => Len(req[r].calls) = 1
        /\ ~Entered(r) => req[r].calls = <<>>
        /\ req[r].pc = "awaiting" => (Entered(r) /\ req[r].outcomes = <<>> /\ req[r].responses = <<>>)
        /\ Handled(r) => Len(req[r].responses) = 1
        /\ (Handled(r) /\ Entered(r)) =>
              /\ Len(req[r].outcomes) = 1
              /\ UpstreamFailed(TheOutcome(r)) =>
                    TheResponse(r).status = (IF req[r].route = "/review" THEN 500 ELSE 200)

C9_Witness ==
    \E r \in Requests :
        /\ Handled(r) /\ Entered(r)
        /\ req[r].route = "/review"
        /\ TheOutcome(r) = UpstreamRaises("APITimeoutError", "Request timed out.")
        /\ Len(req[r].calls) = 1
        /\ req[r].printed = <<"Error: Request timed out.">>
        /\ IsFixedFailure(TheResponse(r))

\* Claim C10: with several requests in flight, no handler step changes the
\* process-wide state (environment, key, client, application), a step of one
\* request leaves every other request as it was, a finished request is never
\* changed again, and two requests with the same route, body and upstream
\* outcome have the same response whatever happened to the others.
C10_RequestsIndependent ==
    /\ [][/\ phase = "serving" => UNCHANGED <<phase, environ, GROQ_API_KEY, client, app>>
          /\ \A r \in Requests :
                req'[r] # req[r] => \A q \in Requests \ {r} : req'[q] = req[q]
          /\ \A r \in Requests : Handled(r) => req'[r] = req[r]]_vars
    /\ [](\A r \in Requests : \A q \in Requests :
            (/\ Handled(r) /\ Handled(q)
             /\ req[r].route = req[q].route
             /\ req[r].body = req[q].body
             /\ req[r].outcomes = req[q].outcomes)
                => /\ req[r].responses = req[q].responses
                   /\ req[r].printed = req[q].printed)

C10_Witness ==
    \E r \in Requests : \E q \in Requests \ {r} :
        /\ Handled(r) /\ IsFixedFailure(TheResponse(r))
        /\ Handled(q) /\ req[q].route = "/review" /\ TheResponse(q).status = 200
        /\ req[q].body = req[r].body

====
